---------------------------- MODULE Spec2Model ----------------------------
(***************************************************************************)
(* A model of the gpr G-code parser (src/src/parser.cpp,                   *)
(* src/src/gcode_program.h, src/src/gcode_program.cpp).                    *)
(*                                                                         *)
(* A character is a one-character string, a text a sequence of characters. *)
(* Cursors are 0-based as in parse_stream: next(s, i) is s[i + 1] here.    *)
(* assert() is taken as compiled in (no NDEBUG): a failed assertion and an *)
(* uncaught exception of stoi/stod both end the parse, pc = "failed".      *)
(* A read past the end of the token vector is undefined behaviour: it      *)
(* either crashes or yields some string, drawn from Garbage.               *)
(***************************************************************************)
EXTENDS Integers, Sequences, FiniteSets, TLC

(***************************************************************************)
(* Bounds of the checked inputs.                                           *)
(***************************************************************************)
\* Longest program text of the exhaustively enumerated family.
MaxTextLen == 3

\* The largest int (stoi's out_of_range limit on the modelled platform).
INT_MAX == 2147483647

Chars(str) == [k \in 1..Len(str) |-> SubSeq(str, k, k)]

(***************************************************************************)
(* Characters: <cctype> in the "C" locale.                                 *)
(***************************************************************************)
Digits == {"0", "1", "2", "3", "4", "5", "6", "7", "8", "9"}

DigitVal(c) ==
    CASE c = "0" -> 0 [] c = "1" -> 1 [] c = "2" -> 2 [] c = "3" -> 3
      [] c = "4" -> 4 [] c = "5" -> 5 [] c = "6" -> 6 [] c = "7" -> 7
      [] c = "8" -> 8 [] c = "9" -> 9

DigitChar(d) == <<"0", "1", "2", "3", "4", "5", "6", "7", "8", "9">>[d + 1]

isdigit(c) == c \in Digits

\* isspace: space, \t, \n, \f, \r (\v has no TLA+ escape and is left out).
isspace(c) == c \in {" ", "\t", "\n", "\f", "\r"}

is_num_char(c) == isdigit(c) \/ c = "." \/ c = "-"

(***************************************************************************)
(* parse_stream<T>: the cursor i over the copied sequence s.               *)
(***************************************************************************)
chars_left(s, i) == i < Len(s)

next(s, i) == s[i + 1]

(***************************************************************************)
(* The character lexer.                                                    *)
(***************************************************************************)
\* Mutant of ignore_whitespace: '%' is skipped like a space.
RECURSIVE ignore_whitespace_percent(_, _)
ignore_whitespace_percent(s, i) ==
    IF chars_left(s, i) /\ (isspace(next(s, i)) \/ next(s, i) = "\r" \/ next(s, i) = "%")
    THEN ignore_whitespace_percent(s, i + 1)
    ELSE i

RECURSIVE ignore_whitespace(_, _)
ignore_whitespace(s, i) ==
    IF chars_left(s, i) /\ (isspace(next(s, i)) \/ next(s, i) = "\r")
    THEN ignore_whitespace(s, i + 1)
    ELSE i

\* Mutant of digit_string_loop: a '.' after the first character ends the run.
RECURSIVE digit_string_loop_dot(_, _, _)
digit_string_loop_dot(s, i, num_str) ==
    IF chars_left(s, i) /\ is_num_char(next(s, i)) /\ (num_str = <<>> \/ next(s, i) # ".")
    THEN digit_string_loop_dot(s, i + 1, Append(num_str, next(s, i)))
    ELSE [str |-> num_str, i |-> i]

RECURSIVE digit_string_loop(_, _, _)
digit_string_loop(s, i, num_str) ==
    IF chars_left(s, i) /\ is_num_char(next(s, i))
    THEN digit_string_loop(s, i + 1, Append(num_str, next(s, i)))
    ELSE [str |-> num_str, i |-> i]

digit_string(s, i) == digit_string_loop(s, i, <<>>)

\* Mutant of comment_loop: the scan ends at the first closer, whatever the depth.
RECURSIVE comment_loop_flat(_, _, _, _, _, _)
comment_loop_flat(sc, ec, s, i, depth, text) ==
    LET c == next(s, i)
        d == IF c = ec THEN 0 ELSE 1
        t == Append(text, c)
    IN  IF chars_left(s, i + 1) /\ d > 0
        THEN comment_loop_flat(sc, ec, s, i + 1, d, t)
        ELSE [str |-> t, i |-> i + 1]

\* The do-while of the character-level comment scanner: one iteration reads
\* s.next(), adjusts depth, appends the character and advances.
RECURSIVE comment_loop(_, _, _, _, _, _)
comment_loop(sc, ec, s, i, depth, text) ==
    LET c == next(s, i)
        d == IF c = sc THEN depth + 1 ELSE IF c = ec THEN depth - 1 ELSE depth
        t == Append(text, c)
    IN  IF chars_left(s, i + 1) /\ d > 0
        THEN comment_loop(sc, ec, s, i + 1, d, t)
        ELSE [str |-> t, i |-> i + 1]

parse_comment_with_delimiters(sc, ec, s, i) == comment_loop(sc, ec, s, i, 0, <<>>)

\* Mutant of lex_token: the default case advances past two characters.
lex_token_two(s, i) ==
    LET c == next(s, i) IN
    IF is_num_char(c)
    THEN [ok |-> TRUE] @@ digit_string(s, i)
    ELSE CASE c = "(" -> [ok |-> TRUE] @@ parse_comment_with_delimiters("(", ")", s, i)
           [] c = "[" -> [ok |-> TRUE] @@ parse_comment_with_delimiters("[", "]", s, i)
           [] c = ")" -> [ok |-> FALSE, str |-> <<>>, i |-> i]
           [] c = "]" -> [ok |-> FALSE, str |-> <<>>, i |-> i]
           [] OTHER   -> [ok |-> TRUE, str |-> <<c>>, i |-> i + 2]

\* Mutant of lex_token: a closer at a token start is a one-character token.
lex_token_closer(s, i) ==
    LET c == next(s, i) IN
    IF is_num_char(c)
    THEN [ok |-> TRUE] @@ digit_string(s, i)
    ELSE CASE c = "(" -> [ok |-> TRUE] @@ parse_comment_with_delimiters("(", ")", s, i)
           [] c = "[" -> [ok |-> TRUE] @@ parse_comment_with_delimiters("[", "]", s, i)
           [] OTHER   -> [ok |-> TRUE, str |-> <<c>>, i |-> i + 1]

\* lex_token is called with chars_left(s, i). ok = FALSE is assert(false).
lex_token(s, i) ==
    LET c == next(s, i) IN
    IF is_num_char(c)
    THEN [ok |-> TRUE] @@ digit_string(s, i)
    ELSE CASE c = "(" -> [ok |-> TRUE] @@ parse_comment_with_delimiters("(", ")", s, i)
           [] c = "[" -> [ok |-> TRUE] @@ parse_comment_with_delimiters("[", "]", s, i)
           [] c = ")" -> [ok |-> FALSE, str |-> <<>>, i |-> i]
           [] c = "]" -> [ok |-> FALSE, str |-> <<>>, i |-> i]
           [] OTHER   -> [ok |-> TRUE, str |-> <<c>>, i |-> i + 1]

(***************************************************************************)
(* The cursor positions at which the lexer calls s.next(): the reads of    *)
(* the character stream, in the order of the loops above.  A read at or    *)
(* past Len(s) is the last one listed: what follows it is undefined.       *)
(***************************************************************************)
RECURSIVE ignore_whitespace_reads(_, _)
ignore_whitespace_reads(s, i) ==
    IF chars_left(s, i)
    THEN {i} \cup (IF isspace(next(s, i)) \/ next(s, i) = "\r"
                   THEN ignore_whitespace_reads(s, i + 1) ELSE {})
    ELSE {}

RECURSIVE digit_string_reads(_, _)
digit_string_reads(s, i) ==
    IF chars_left(s, i)
    THEN {i} \cup (IF is_num_char(next(s, i)) THEN digit_string_reads(s, i + 1) ELSE {})
    ELSE {}

\* The do-while reads s.next() before any test of chars_left.
RECURSIVE comment_reads(_, _, _, _, _)
comment_reads(sc, ec, s, i, depth) ==
    IF ~chars_left(s, i) THEN {i}
    ELSE LET c == next(s, i)
             d == IF c = sc THEN depth + 1 ELSE IF c = ec THEN depth - 1 ELSE depth
         IN  {i} \cup (IF chars_left(s, i + 1) /\ d > 0
                        THEN comment_reads(sc, ec, s, i + 1, d) ELSE {})

lex_token_reads(s, i) ==
    IF ~chars_left(s, i) THEN {i}
    ELSE LET c == next(s, i) IN
         {i} \cup (IF is_num_char(c) THEN digit_string_reads(s, i)
                    ELSE CASE c = "(" -> comment_reads("(", ")", s, i, 0)
                           [] c = "[" -> comment_reads("[", "]", s, i, 0)
                           [] OTHER   -> {})

\* One iteration of lex_block's loop, entered with chars_left(s, i)
lex_block_reads(s, i) ==
    LET j == ignore_whitespace(s, i) IN
    ignore_whitespace_reads(s, i) \cup (IF chars_left(s, j) THEN lex_token_reads(s, j) ELSE {})

(***************************************************************************)
(* Numeric conversions.  An int is a TLA+ integer.  A double is the exact  *)
(* decimal [neg, m, e] = (-1)^neg * m * 10^(-e), kept canonical (no        *)
(* trailing zero in the fraction), so that 1, 1.0 and 1.00 are one value    *)
(* and -0 is kept apart from 0, as in IEEE arithmetic.                     *)
(***************************************************************************)
RECURSIVE Pow10(_)
Pow10(k) == IF k = 0 THEN 1 ELSE 10 * Pow10(k - 1)

RECURSIVE NumDigits(_)
NumDigits(n) == IF n < 10 THEN 1 ELSE 1 + NumDigits(n \div 10)

RECURSIVE DigitsOf(_)
DigitsOf(n) == IF n < 10 THEN <<DigitChar(n)>>
               ELSE Append(DigitsOf(n \div 10), DigitChar(n % 10))

RECURSIVE Zeros(_)
Zeros(k) == IF k <= 0 THEN <<>> ELSE <<"0">> \o Zeros(k - 1)

RECURSIVE StripZeros(_)
StripZeros(ds) == IF Len(ds) > 1 /\ ds[Len(ds)] = "0"
                  THEN StripZeros(SubSeq(ds, 1, Len(ds) - 1))
                  ELSE ds

RECURSIVE Canonical(_)
Canonical(d) == IF d.e > 0 /\ d.m % 10 = 0
                THEN Canonical([d EXCEPT !.m = d.m \div 10, !.e = d.e - 1])
                ELSE d

\* Leading white space is skipped by strtol/strtod.
RECURSIVE SkipSpace(_, _)
SkipSpace(str, j) == IF j <= Len(str) /\ isspace(str[j]) THEN SkipSpace(str, j + 1) ELSE j

\* The digits of str from position j (1-based): [n digits read, val, over].
RECURSIVE IntDigits(_, _, _, _)
IntDigits(str, j, n, acc) ==
    IF j <= Len(str) /\ isdigit(str[j])
    THEN IF acc > (INT_MAX - DigitVal(str[j])) \div 10
         THEN [n |-> n + 1, val |-> acc, over |-> TRUE, last |-> j]
         ELSE IntDigits(str, j + 1, n + 1, acc * 10 + DigitVal(str[j]))
    ELSE [n |-> n, val |-> acc, over |-> FALSE, last |-> j]

\* std::stoi(str): optional white space, optional sign, the longest run of
\* decimal digits; what follows the digits is ignored.  No digit:
\* invalid_argument; beyond int: out_of_range (both ok = FALSE).
stoi(str) ==
    LET j0   == SkipSpace(str, 1)
        sign == j0 <= Len(str) /\ str[j0] \in {"-", "+"}
        neg  == sign /\ str[j0] = "-"
        r    == IntDigits(str, IF sign THEN j0 + 1 ELSE j0, 0, 0)
        \* INT_MIN: the one magnitude beyond INT_MAX that fits.
        min  == neg /\ r.over /\ r.val = INT_MAX \div 10 /\ str[r.last] = "8"
                    /\ ~(r.last < Len(str) /\ isdigit(str[r.last + 1]))
    IN  IF r.n = 0 THEN [ok |-> FALSE, val |-> 0]
        ELSE IF min THEN [ok |-> TRUE, val |-> (-INT_MAX) - 1]
        ELSE IF r.over THEN [ok |-> FALSE, val |-> 0]
        ELSE [ok |-> TRUE, val |-> IF neg THEN -r.val ELSE r.val]

\* The mantissa of strtod from position j: digits, at most one '.', digits.
RECURSIVE DblDigits(_, _, _, _, _, _)
DblDigits(str, j, n, m, e, dot) ==
    IF j <= Len(str) /\ isdigit(str[j])
    THEN DblDigits(str, j + 1, n + 1, m * 10 + DigitVal(str[j]),
                   IF dot THEN e + 1 ELSE e, dot)
    ELSE IF j <= Len(str) /\ str[j] = "." /\ ~dot
    THEN DblDigits(str, j + 1, n, m, e, TRUE)
    ELSE [n |-> n, m |-> m, e |-> e]

\* std::stod(str) on a text of digits, '.', '-' (a numeric token holds no
\* other character, so the exponent, hex, inf and nan forms cannot occur):
\* optional sign, the longest decimal mantissa with at least one digit; the
\* rest is ignored.  No digit: invalid_argument (ok = FALSE).
stod(str) ==
    LET j0   == SkipSpace(str, 1)
        sign == j0 <= Len(str) /\ str[j0] \in {"-", "+"}
        neg  == sign /\ str[j0] = "-"
        r    == DblDigits(str, IF sign THEN j0 + 1 ELSE j0, 0, 0, 0, FALSE)
    IN  IF r.n = 0 THEN [ok |-> FALSE, val |-> [neg |-> FALSE, m |-> 0, e |-> 0]]
        ELSE [ok |-> TRUE, val |-> Canonical([neg |-> neg, m |-> r.m, e |-> r.e])]

\* double == double
DblEq(a, b) == a.m = b.m /\ a.e = b.e /\ (a.neg = b.neg \/ a.m = 0)

\* ostream << int
IntText(n) == IF n < 0 THEN <<"-">> \o DigitsOf(-n) ELSE DigitsOf(n)

\* ostream << double with the stream's defaults: printf("%g"), 6 significant
\* digits, trailing zeros removed, scientific form when the decimal
\* exponent X is < -4 or >= 6.  (Ties of the 7th digit are rounded up.)
DblText(d) ==
    LET D    == NumDigits(d.m)
        cut  == IF D > 6 THEN Pow10(D - 6) ELSE 1
        q0   == d.m \div cut
        q1   == IF 2 * (d.m % cut) >= cut /\ cut > 1 THEN q0 + 1 ELSE q0
        X0   == D - 1 - d.e
        X    == IF NumDigits(q1) > NumDigits(q0) THEN X0 + 1 ELSE X0
        sig  == StripZeros(DigitsOf(q1))
        L    == Len(sig)
        sgn  == IF d.neg THEN <<"-">> ELSE <<>>
        ax   == IF X < 0 THEN -X ELSE X
        exp  == <<"e", IF X < 0 THEN "-" ELSE "+">>
                \o (IF ax < 10 THEN <<"0">> ELSE <<>>) \o DigitsOf(ax)
    IN  IF d.m = 0 THEN sgn \o <<"0">>
        ELSE IF X < -4 \/ X >= 6
        THEN sgn \o <<sig[1]>>
                 \o (IF L > 1 THEN <<".">> \o SubSeq(sig, 2, L) ELSE <<>>) \o exp
        ELSE IF X < 0
        THEN sgn \o <<"0", ".">> \o Zeros(-X - 1) \o sig
        ELSE IF L <= X + 1
        THEN sgn \o sig \o Zeros(X + 1 - L)
        ELSE sgn \o SubSeq(sig, 1, X + 1) \o <<".">> \o SubSeq(sig, X + 2, L)

(***************************************************************************)
(* The data model (gcode_program.h).  A chunk keeps only the fields of its *)
(* variant: the others are never read (every accessor asserts the type).   *)
(***************************************************************************)
make_int_address(i) == [ad_type |-> "ADDRESS_TYPE_INTEGER", val |-> i]

make_double_address(d) == [ad_type |-> "ADDRESS_TYPE_DOUBLE", val |-> d]

\* Mutant of int_value: no assert on the tag.
int_value_unchecked(a) == [ok |-> TRUE, val |-> a.val]

\* double_value(): assert(tp() == ADDRESS_TYPE_DOUBLE); return val.dbl_val
double_value(a) ==
    IF a.ad_type = "ADDRESS_TYPE_DOUBLE" THEN [ok |-> TRUE, val |-> a.val]
    ELSE [ok |-> FALSE]

\* int_value(): assert(tp() == ADDRESS_TYPE_INTEGER); return val.int_val
int_value(a) ==
    IF a.ad_type = "ADDRESS_TYPE_INTEGER" THEN [ok |-> TRUE, val |-> a.val]
    ELSE [ok |-> FALSE]

addr_equals(a, other) ==
    IF other.ad_type # a.ad_type THEN FALSE
    ELSE IF other.ad_type = "ADDRESS_TYPE_DOUBLE" THEN DblEq(other.val, a.val)
    ELSE other.val = a.val

addr_print(a) ==
    IF a.ad_type = "ADDRESS_TYPE_DOUBLE" THEN DblText(a.val) ELSE IntText(a.val)

make_percent_chunk == [chunk_tp |-> "CHUNK_TYPE_PERCENT"]

make_isolated_word(c) == [chunk_tp |-> "CHUNK_TYPE_WORD", single_word |-> c]

make_comment(start_delim, end_delim, comment_text) ==
    [chunk_tp |-> "CHUNK_TYPE_COMMENT",
     cd |-> [left_delim |-> start_delim, right_delim |-> end_delim,
             comment_text |-> comment_text]]

make_word_address(p_wd, p_adr) ==
    [chunk_tp |-> "CHUNK_TYPE_WORD_ADDRESS", wad |-> [wd |-> p_wd, adr |-> p_adr]]

\* The accessors of chunk: each asserts the variant, then returns the field.
get_left_delim(c) ==
    IF c.chunk_tp = "CHUNK_TYPE_COMMENT" THEN [ok |-> TRUE, val |-> c.cd.left_delim]
    ELSE [ok |-> FALSE]

get_right_delim(c) ==
    IF c.chunk_tp = "CHUNK_TYPE_COMMENT" THEN [ok |-> TRUE, val |-> c.cd.right_delim]
    ELSE [ok |-> FALSE]

get_comment_text(c) ==
    IF c.chunk_tp = "CHUNK_TYPE_COMMENT" THEN [ok |-> TRUE, val |-> c.cd.comment_text]
    ELSE [ok |-> FALSE]

get_word(c) ==
    IF c.chunk_tp = "CHUNK_TYPE_WORD_ADDRESS" THEN [ok |-> TRUE, val |-> c.wad.wd]
    ELSE [ok |-> FALSE]

get_address(c) ==
    IF c.chunk_tp = "CHUNK_TYPE_WORD_ADDRESS" THEN [ok |-> TRUE, val |-> c.wad.adr]
    ELSE [ok |-> FALSE]

get_single_word(c) ==
    IF c.chunk_tp = "CHUNK_TYPE_WORD" THEN [ok |-> TRUE, val |-> c.single_word]
    ELSE [ok |-> FALSE]

\* Mutant of chunk_equals: two comments with the same text are equal.
chunk_equals_text_only(l, other) ==
    IF other.chunk_tp # l.chunk_tp THEN FALSE
    ELSE CASE l.chunk_tp = "CHUNK_TYPE_WORD_ADDRESS" ->
                  l.wad.wd = other.wad.wd
                  /\ other.wad.adr.ad_type = l.wad.adr.ad_type
                  /\ other.wad.adr.val = l.wad.adr.val
           [] l.chunk_tp = "CHUNK_TYPE_COMMENT" ->
                  l.cd.comment_text = other.cd.comment_text
           [] l.chunk_tp = "CHUNK_TYPE_PERCENT" -> TRUE
           [] l.chunk_tp = "CHUNK_TYPE_WORD" -> l.single_word = other.single_word

chunk_equals(l, other) ==
    IF other.chunk_tp # l.chunk_tp THEN FALSE
    ELSE CASE l.chunk_tp = "CHUNK_TYPE_WORD_ADDRESS" ->
                  l.wad.wd = other.wad.wd /\ addr_equals(l.wad.adr, other.wad.adr)
           [] l.chunk_tp = "CHUNK_TYPE_COMMENT" ->
                  /\ l.cd.comment_text = other.cd.comment_text
                  /\ l.cd.left_delim = other.cd.left_delim
                  /\ l.cd.right_delim = other.cd.right_delim
           [] l.chunk_tp = "CHUNK_TYPE_PERCENT" -> TRUE
           [] l.chunk_tp = "CHUNK_TYPE_WORD" -> l.single_word = other.single_word

chunk_print(ic) ==
    CASE ic.chunk_tp = "CHUNK_TYPE_COMMENT" ->
             <<ic.cd.left_delim>> \o ic.cd.comment_text \o <<ic.cd.right_delim>>
      [] ic.chunk_tp = "CHUNK_TYPE_WORD_ADDRESS" ->
             <<ic.wad.wd>> \o addr_print(ic.wad.adr)
      [] ic.chunk_tp = "CHUNK_TYPE_PERCENT" -> <<"%">>
      [] ic.chunk_tp = "CHUNK_TYPE_WORD" -> <<ic.single_word>>

\* Mutant of chunks_print: single spaces between the chunks, none after the
\* last one.
RECURSIVE chunks_print_joined(_)
chunks_print_joined(cs) ==
    IF cs = <<>> THEN <<>>
    ELSE IF Len(cs) = 1 THEN chunk_print(Head(cs))
    ELSE chunk_print(Head(cs)) \o <<" ">> \o chunks_print_joined(Tail(cs))

\* block(p_line_no, p_slashed_out, p_chunks)
block_with_line_no(p_line_no, p_slashed_out, p_chunks) ==
    [has_line_no |-> TRUE, line_no |-> p_line_no, slashed_out |-> p_slashed_out,
     chunks |-> p_chunks, debug_text |-> <<>>]

\* block(p_slashed_out, p_chunks)
block_without_line_no(p_slashed_out, p_chunks) ==
    [has_line_no |-> FALSE, line_no |-> -1, slashed_out |-> p_slashed_out,
     chunks |-> p_chunks, debug_text |-> <<>>]

\* line_number(): assert(has_line_number()); return line_no
line_number(b) ==
    IF b.has_line_no THEN [ok |-> TRUE, val |-> b.line_no] ELSE [ok |-> FALSE]

\* block(const block& other): every field but debug_text is copied; the new
\* block's debug_text is default-constructed (empty).
block_copy(other) ==
    [has_line_no |-> other.has_line_no, line_no |-> other.line_no,
     slashed_out |-> other.slashed_out, chunks |-> other.chunks,
     debug_text |-> <<>>]

RECURSIVE chunks_print(_)
chunks_print(cs) ==
    IF cs = <<>> THEN <<>>
    ELSE chunk_print(Head(cs)) \o <<" ">> \o chunks_print(Tail(cs))

\* Mutant of block_print: a deleted block is printed with a leading '/'.
block_print_slash(b) ==
    (IF b.slashed_out THEN <<"/">> ELSE <<>>)
    \o (IF b.has_line_no THEN <<"N">> \o IntText(b.line_no) \o <<" ">> ELSE <<>>)
    \o chunks_print(b.chunks)

block_print(b) ==
    (IF b.has_line_no THEN <<"N">> \o IntText(b.line_no) \o <<" ">> ELSE <<>>)
    \o chunks_print(b.chunks)

block_to_string(b) == block_print(b)

\* set_debug_text(): debug_text = to_string()
set_debug_text(b) == [b EXCEPT !.debug_text = block_to_string(b)]

\* gcode_program(const std::vector<block>&): the vector is copied, each
\* block through block's copy constructor.
gcode_program(p_blocks) == [k \in 1..Len(p_blocks) |-> block_copy(p_blocks[k])]

\* operator<<(ostream&, const gcode_program&): each block, then endl.
RECURSIVE program_print(_)
program_print(blocks) ==
    IF blocks = <<>> THEN <<>>
    ELSE block_print(block_copy(Head(blocks))) \o <<"\n">> \o program_print(Tail(blocks))

(***************************************************************************)
(* The token parser.  s is the token vector, i the cursor.  g is what a    *)
(* read at or past Len(s) yields (undefined behaviour); it is not looked   *)
(* at by a read inside the vector.                                         *)
(***************************************************************************)
tok_next(s, i, g) == IF chars_left(s, i) THEN next(s, i) ELSE g

\* std::string::substr(pos, count), count taken modulo the width of size_t:
\* a negative count here is a huge one there, and means "to the end".
substr(cs, pos, count) ==
    IF count < 0 \/ pos + count > Len(cs)
    THEN SubSeq(cs, pos + 1, Len(cs))
    ELSE SubSeq(cs, pos + 1, pos + count)

parse_double(s, i, g) ==
    LET r == stod(tok_next(s, i, g)) IN
    IF r.ok THEN [ok |-> TRUE, err |-> "", val |-> r.val, i |-> i + 1]
    ELSE [ok |-> FALSE, err |-> "NumericFormat", val |-> r.val, i |-> i]

parse_int(s, i, g) ==
    LET r == stoi(tok_next(s, i, g)) IN
    IF r.ok THEN [ok |-> TRUE, err |-> "", val |-> r.val, i |-> i + 1]
    ELSE [ok |-> FALSE, err |-> "NumericFormat", val |-> r.val, i |-> i]

DoubleLetters ==
    {"X", "Y", "Z", "A", "B", "C", "U", "V", "W", "I", "J", "K", "F", "R", "Q", "S",
     "x", "y", "z", "a", "b", "c", "u", "v", "w", "i", "j", "k", "f", "r", "s", "q",
     "E"}

IntLetters ==
    {"G", "H", "M", "N", "O", "T", "P", "D", "L",
     "g", "h", "m", "n", "o", "t", "p", "d", "l"}

\* Mutant of parse_address: 'Q' and 'q' sit in the integer case list.
parse_address_q_int(c, s, i, g) ==
    IF c \in DoubleLetters \ {"Q", "q"}
    THEN LET r == parse_double(s, i, g) IN
         [ok |-> r.ok, err |-> r.err, adr |-> make_double_address(r.val), i |-> r.i]
    ELSE IF c \in IntLetters \cup {"Q", "q"}
    THEN LET r == parse_int(s, i, g) IN
         [ok |-> r.ok, err |-> r.err, adr |-> make_int_address(r.val), i |-> r.i]
    ELSE [ok |-> FALSE, err |-> "UnknownAddressLetter",
          adr |-> make_int_address(0), i |-> i]

\* Mutant of parse_address: a letter outside both case lists is read as a
\* double instead of being rejected.
parse_address_default_double(c, s, i, g) ==
    IF c \in IntLetters
    THEN LET r == parse_int(s, i, g) IN
         [ok |-> r.ok, err |-> r.err, adr |-> make_int_address(r.val), i |-> r.i]
    ELSE LET r == parse_double(s, i, g) IN
         [ok |-> r.ok, err |-> r.err, adr |-> make_double_address(r.val), i |-> r.i]

parse_address(c, s, i, g) ==
    IF c \in DoubleLetters
    THEN LET r == parse_double(s, i, g) IN
         [ok |-> r.ok, err |-> r.err, adr |-> make_double_address(r.val), i |-> r.i]
    ELSE IF c \in IntLetters
    THEN LET r == parse_int(s, i, g) IN
         [ok |-> r.ok, err |-> r.err, adr |-> make_int_address(r.val), i |-> r.i]
    ELSE [ok |-> FALSE, err |-> "UnknownAddressLetter",
          adr |-> make_int_address(0), i |-> i]

\* Mutant of parse_line_comment_with_delimiter: only the token after the ';'
\* goes into the comment.
parse_line_comment_one_token(s, i, text) ==
    IF chars_left(s, i) THEN [str |-> text \o next(s, i), i |-> i + 1]
    ELSE [str |-> text, i |-> i]

RECURSIVE parse_line_comment_with_delimiter(_, _, _)
parse_line_comment_with_delimiter(s, i, text) ==
    IF chars_left(s, i)
    THEN parse_line_comment_with_delimiter(s, i + 1, text \o next(s, i))
    ELSE [str |-> text, i |-> i]

NoChunk == make_percent_chunk

\* Mutant of parse_isolated_word: the token after the word is consumed too.
parse_isolated_word_two(s, i) ==
    IF ~chars_left(s, i) \/ Len(next(s, i)) # 1
    THEN [ok |-> FALSE, err |-> "Assert", ch |-> NoChunk, i |-> i]
    ELSE [ok |-> TRUE, err |-> "", ch |-> make_isolated_word(next(s, i)[1]), i |-> i + 2]

parse_isolated_word(s, i) ==
    IF ~chars_left(s, i) \/ Len(next(s, i)) # 1
    THEN [ok |-> FALSE, err |-> "Assert", ch |-> NoChunk, i |-> i]
    ELSE [ok |-> TRUE, err |-> "", ch |-> make_isolated_word(next(s, i)[1]), i |-> i + 1]

\* Mutant of parse_word_address: the address is always stored as an integer.
parse_word_address_int(s, i, g) ==
    IF ~chars_left(s, i) \/ Len(next(s, i)) # 1
    THEN [ok |-> FALSE, err |-> "Assert", ch |-> NoChunk, i |-> i]
    ELSE LET c == next(s, i)[1]
             a == parse_address(c, s, i + 1, g)
         IN  [ok |-> a.ok, err |-> a.err, i |-> a.i,
              ch |-> make_word_address(c, make_int_address(0))]

parse_word_address(s, i, g) ==
    IF ~chars_left(s, i) \/ Len(next(s, i)) # 1
    THEN [ok |-> FALSE, err |-> "Assert", ch |-> NoChunk, i |-> i]
    ELSE LET c == next(s, i)[1]
             a == parse_address(c, s, i + 1, g)
         IN  [ok |-> a.ok, err |-> a.err, ch |-> make_word_address(c, a.adr), i |-> a.i]

\* parse_chunk is called with chars_left(s, i); g stands for the token at
\* i + 1 when there is none.
parse_chunk(s, i, g) ==
    LET cs == next(s, i) IN
    IF cs[1] = "["
    THEN [ok |-> TRUE, err |-> "", i |-> i + 1,
          ch |-> make_comment("[", "]", substr(cs, 1, Len(cs) - 2))]
    ELSE IF cs[1] = "("
    THEN [ok |-> TRUE, err |-> "", i |-> i + 1,
          ch |-> make_comment("(", ")", substr(cs, 1, Len(cs) - 2))]
    ELSE IF cs = <<"%">>
    THEN [ok |-> TRUE, err |-> "", i |-> i + 1, ch |-> make_percent_chunk]
    ELSE IF cs = <<";">>
    THEN LET c == parse_line_comment_with_delimiter(s, i + 1, <<>>) IN
         [ok |-> TRUE, err |-> "", i |-> c.i, ch |-> make_comment(";", ";", c.str)]
    ELSE LET next_next == tok_next(s, i + 1, g) IN
         \* next_next[0] of an empty string is '\0', no numeric character
         IF ~(next_next # <<>> /\ is_num_char(next_next[1]))
         THEN parse_isolated_word(s, i)
         ELSE parse_word_address(s, i, g)

is_slash(t) == IF Len(t) # 1 THEN FALSE ELSE t[1] = "/"

(***************************************************************************)
(* The cursor positions at which parse_tokens and its callees call         *)
(* s.next() or dereference s.remaining() + 1: the reads of the token       *)
(* vector.  A read at or past Len(s) is the last one listed.               *)
(***************************************************************************)
\* parse_line_number: s.next() == "N", then parse_int's s.next()
parse_line_number_reads(s, i) ==
    {i} \cup (IF chars_left(s, i) /\ next(s, i) = <<"N">> THEN {i + 1} ELSE {})

\* parse_chunk, called with chars_left(s, i)
parse_chunk_reads(s, i) ==
    LET cs == next(s, i) IN
    {i} \cup (IF cs[1] = "[" \/ cs[1] = "(" \/ cs = <<"%">> THEN {}
              ELSE IF cs = <<";">> THEN (i + 1)..(Len(s) - 1)
              ELSE {i + 1})

\* Mutant of parse_slash: the '/' sets the flag but is not consumed.
parse_slash_kept(s, i) ==
    IF is_slash(next(s, i)) THEN [slashed |-> TRUE, i |-> i]
    ELSE [slashed |-> FALSE, i |-> i]

\* parse_slash(parse_stream<string>&), called with chars_left(s, i)
parse_slash(s, i) ==
    IF is_slash(next(s, i)) THEN [slashed |-> TRUE, i |-> i + 1]
    ELSE [slashed |-> FALSE, i |-> i]

\* g1 stands for the token at i, g2 for the one at i + 1, when there is none.
parse_line_number(s, i, g1, g2) ==
    IF tok_next(s, i, g1) = <<"N">>
    THEN LET r == parse_int(s, i + 1, g2) IN
         [ok |-> r.ok, err |-> r.err, first |-> TRUE, second |-> r.val, i |-> r.i]
    ELSE [ok |-> TRUE, err |-> "", first |-> FALSE, second |-> -1, i |-> i]

(***************************************************************************)
(* The checked inputs: every text of at most MaxTextLen characters over    *)
(* Alphabet, and the longer texts of Scenarios.                            *)
(***************************************************************************)
Alphabet == {"N", "X", "e", "1", ".", "-", "/", "(", ")", ";", "%", " ", "\n"}

ShortTexts == UNION {[1..n -> Alphabet] : n \in 0..MaxTextLen}

Numbers == {Chars("0"), Chars("5"), Chars("-1"), Chars(".5"), Chars("1.0"), Chars("12")}

\* Letters that are neither in the case 'X': ... nor in the case 'G': ... list
OtherLetters == {"e", "?", "+"}

WordLines == {<<c>> \o n : c \in DoubleLetters \cup IntLetters \cup OtherLetters,
                           n \in Numbers}

Scenarios ==
    { Chars("G0 X0.0 Y0.0 Z0.0"),
      Chars("/N5 G1 X1"),
      Chars("%"),
      Chars("G1 (nested (deep) comment) X1"),
      Chars("(outer (inner) end)"),
      Chars("[a [b] c] G1"),
      Chars("(*** Toolpath 1 ***)\nG0 X0.0 Y0.0 Z0.0\nG1 X1.0 F23.0\nG1 Z-1.0 F10.0"),
      Chars("N10 G1\r\n\r\nM2\n"),
      Chars("G1 X1000000"),
      Chars("G1 X.00001"),
      Chars("G1 X1.2345678"),
      Chars("N1.5 G1"),
      Chars("G1 ; a (b) N"),
      Chars("\t \n%\n\n\n%"),
      Chars("/%\n\n(a)\n\n/N2 %"),
      Chars("G01 X10.0 Y5.0 F200"),
      Chars("X1 2 Y3"),
      Chars("X12Y3"),
      Chars("%\n)\n%"),
      Chars("G1.5"),
      Chars("X1.2.3"),
      Chars("X1-2"),
      Chars("G1 X") }

Texts == ShortTexts \cup WordLines \cup Scenarios

\* What a read past the end of the token vector can yield when it does not
\* crash: some string; these three reach every branch that looks at it.
Garbage == {<<>>, <<"N">>, <<"7">>}

Reads(s, i) ==
    IF chars_left(s, i)
    THEN {[crash |-> FALSE, str |-> next(s, i)]}
    ELSE {[crash |-> TRUE, str |-> <<>>]} \cup {[crash |-> FALSE, str |-> g] : g \in Garbage}

(***************************************************************************)
(* The state.                                                              *)
(***************************************************************************)
VARIABLES
    text,        \* program_text of the running call
    pass,        \* 1: the parse of an input; 2: the parse of its printed program
    first,       \* pass 2: the input of the first parse and the program it returned
    pc,          \* where the call is
    entry,       \* the entry point called, known once lex_gprog has returned
    line_start,  \* lex_gprog: offset of line_start in str
    line,        \* lex_gprog: the line being lexed and parsed
    ci,          \* lex_block: cursor of parse_state s
    tokens,      \* lex_block: tokens / parse_tokens: its argument
    ti,          \* parse_tokens: cursor of parse_stream<string> s
    is_slashed,  \* parse_tokens
    line_no,     \* parse_tokens: the pair <<first, second>>
    chunks,      \* parse_tokens
    blocks,      \* lex_gprog: blocks
    program,     \* the returned gcode_program's blocks
    err,         \* why the call ended without returning
    operands,    \* the objects a client of gcode_program.h has constructed
    outcome      \* what the client's last call on them gave

vars == <<text, pass, first, pc, entry, line_start, line, ci, tokens, ti,
          is_slashed, line_no, chunks, blocks, program, err, operands, outcome>>

NoLineNo == <<FALSE, -1>>

\* The locals of one line's lex_block and parse_tokens calls, out of scope.
LineLocalsReset ==
    /\ line' = <<>> /\ ci' = 0 /\ tokens' = <<>> /\ ti' = 0
    /\ is_slashed' = FALSE /\ line_no' = NoLineNo /\ chunks' = <<>>

\* No object constructed and no call made by a client.
NoOperands == [made |-> FALSE]

NoOutcome == [op |-> "none"]

Init ==
    /\ text \in Texts
    /\ operands = NoOperands /\ outcome = NoOutcome
    /\ pass = 1 /\ first = [text |-> <<>>, program |-> <<>>]
    /\ pc = "lex_gprog" /\ entry = "none"
    /\ line_start = 0 /\ line = <<>> /\ ci = 0 /\ tokens = <<>> /\ ti = 0
    /\ is_slashed = FALSE /\ line_no = NoLineNo /\ chunks = <<>>
    /\ blocks = <<>> /\ program = <<>> /\ err = ""

\* Mutant of Fail: the failing line is given up and lex_gprog goes on with
\* the next one.
Fail_next_line(e) ==
    /\ pc' = "lex_gprog" /\ err' = e
    /\ line_start' = line_start + Len(line) + 1 /\ LineLocalsReset
    /\ UNCHANGED <<operands, outcome, text, pass, first, entry, blocks, program>>

\* assert(false), an uncaught exception or a crash: the call never returns.
Fail(e) ==
    /\ pc' = "failed" /\ err' = e
    /\ line_start' = 0 /\ blocks' = <<>> /\ LineLocalsReset
    /\ UNCHANGED <<operands, outcome, text, pass, first, entry, program>>

\* find(line_start, str.end(), '\n') as an offset
RECURSIVE find_newline(_, _)
find_newline(str, from) ==
    IF from < Len(str) /\ str[from + 1] # "\n" THEN find_newline(str, from + 1) ELSE from

line_at(str, from) == SubSeq(str, from + 1, find_newline(str, from))

\* Mutant of LexGprogLine: a line of size 0 does not move line_start.
LexGprogLine_stuck ==
    /\ pc = "lex_gprog" /\ line_start < Len(text)
    /\ LET l == line_at(text, line_start) IN
       IF Len(l) > 0
       THEN /\ pc' = "lex_block" /\ line' = l /\ ci' = ignore_whitespace(l, 0)
            /\ UNCHANGED line_start
       ELSE /\ line_start' = line_start
            /\ UNCHANGED <<pc, line, ci>>
    /\ UNCHANGED <<operands, outcome, text, pass, first, entry, tokens, ti, is_slashed, line_no,
                   chunks, blocks, program, err>>

\* lex_gprog: the head of one iteration of while (line_start < str.end()),
\* up to the call of lex_block (and its first ignore_whitespace), or through
\* the whole iteration for a line of size 0.
LexGprogLine ==
    /\ pc = "lex_gprog" /\ line_start < Len(text)
    /\ LET l == line_at(text, line_start) IN
       IF Len(l) > 0
       THEN /\ pc' = "lex_block" /\ line' = l /\ ci' = ignore_whitespace(l, 0)
            /\ UNCHANGED line_start
       ELSE /\ line_start' = line_start + Len(l) + 1
            /\ UNCHANGED <<pc, line, ci>>
    /\ UNCHANGED <<operands, outcome, text, pass, first, entry, tokens, ti, is_slashed, line_no,
                   chunks, blocks, program, err>>

\* lex_block: one iteration of while (s.chars_left())
LexBlockToken ==
    /\ pc = "lex_block" /\ chars_left(line, ci)
    /\ LET j == ignore_whitespace(line, ci) IN
       IF chars_left(line, j)
       THEN LET r == lex_token(line, j) IN
            IF r.ok
            THEN /\ tokens' = Append(tokens, r.str) /\ ci' = r.i
                 /\ UNCHANGED <<operands, outcome, text, pass, first, pc, entry, line_start, line, ti,
                                is_slashed, line_no, chunks, blocks, program, err>>
            ELSE Fail("LexError")
       ELSE /\ ci' = j
            /\ UNCHANGED <<operands, outcome, text, pass, first, pc, entry, line_start, line, tokens, ti,
                           is_slashed, line_no, chunks, blocks, program, err>>

\* lex_block returns its tokens; parse_tokens is called with them.
LexBlockReturn ==
    /\ pc = "lex_block" /\ ~chars_left(line, ci)
    /\ pc' = "parse_tokens" /\ ti' = 0
    /\ UNCHANGED <<operands, outcome, text, pass, first, entry, line_start, line, ci, tokens,
                   is_slashed, line_no, chunks, blocks, program, err>>

\* Mutant of PushBlock: the block is put in front of the others.
PushBlock_front(b) ==
    /\ blocks' = <<block_copy(b)>> \o blocks
    /\ line_start' = line_start + Len(line) + 1
    /\ pc' = "lex_gprog"
    /\ LineLocalsReset
    /\ UNCHANGED <<operands, outcome, text, pass, first, entry, program, err>>

\* lex_gprog: blocks.push_back(b); line_start += line.size() + 1
PushBlock(b) ==
    /\ blocks' = Append(blocks, block_copy(b))
    /\ line_start' = line_start + Len(line) + 1
    /\ pc' = "lex_gprog"
    /\ LineLocalsReset
    /\ UNCHANGED <<operands, outcome, text, pass, first, entry, program, err>>

\* Mutant of ParseTokensEmpty: a line without tokens gives no block.
ParseTokensEmpty_dropped ==
    /\ pc = "parse_tokens" /\ Len(tokens) = 0
    /\ line_start' = line_start + Len(line) + 1
    /\ pc' = "lex_gprog"
    /\ LineLocalsReset
    /\ UNCHANGED <<operands, outcome, text, pass, first, entry, blocks, program, err>>

\* parse_tokens: tokens.size() == 0
ParseTokensEmpty ==
    /\ pc = "parse_tokens" /\ Len(tokens) = 0
    /\ PushBlock(block_without_line_no(FALSE, <<>>))

\* parse_tokens: bool is_slashed = parse_slash(s)
ParseSlash ==
    /\ pc = "parse_tokens" /\ Len(tokens) # 0
    /\ LET r == parse_slash(tokens, ti) IN
       /\ is_slashed' = r.slashed /\ ti' = r.i
    /\ pc' = "parse_line_number"
    /\ UNCHANGED <<operands, outcome, text, pass, first, entry, line_start, line, ci, tokens,
                   line_no, chunks, blocks, program, err>>

\* parse_tokens: line_no = parse_line_number(s)
ParseLineNumber ==
    /\ pc = "parse_line_number"
    /\ \E r1 \in Reads(tokens, ti) :
         IF r1.crash THEN Fail("Crash")
         ELSE \E r2 \in (IF r1.str = <<"N">> THEN Reads(tokens, ti + 1) ELSE {r1}) :
              IF r2.crash THEN Fail("Crash")
              ELSE LET r == parse_line_number(tokens, ti, r1.str, r2.str) IN
                   IF r.ok
                   THEN /\ line_no' = <<r.first, r.second>> /\ ti' = r.i
                        /\ pc' = "parse_chunk"
                        /\ UNCHANGED <<operands, outcome, text, pass, first, entry, line_start, line, ci,
                                       tokens, is_slashed, chunks, blocks, program, err>>
                   ELSE Fail(r.err)

\* The branch of parse_chunk that looks one token ahead
looks_ahead(cs) == cs[1] # "[" /\ cs[1] # "(" /\ cs # <<"%">> /\ cs # <<";">>

\* parse_tokens: one iteration of while (s.chars_left())
ParseChunk ==
    /\ pc = "parse_chunk" /\ chars_left(tokens, ti)
    /\ \E r1 \in (IF looks_ahead(next(tokens, ti)) THEN Reads(tokens, ti + 1)
                  ELSE {[crash |-> FALSE, str |-> <<>>]}) :
         IF r1.crash THEN Fail("Crash")
         ELSE LET r == parse_chunk(tokens, ti, r1.str) IN
              IF r.ok
              THEN /\ chunks' = Append(chunks, r.ch) /\ ti' = r.i
                   /\ UNCHANGED <<operands, outcome, text, pass, first, pc, entry, line_start, line, ci,
                                  tokens, is_slashed, line_no, blocks, program, err>>
              ELSE Fail(r.err)

\* parse_tokens returns the block, lex_gprog appends it.
ParseTokensReturn ==
    /\ pc = "parse_chunk" /\ ~chars_left(tokens, ti)
    /\ PushBlock(IF line_no[1]
                 THEN block_with_line_no(line_no[2], is_slashed, chunks)
                 ELSE block_without_line_no(is_slashed, chunks))

\* lex_gprog returns blocks to parse_gcode or parse_gcode_saving_block_text.
\* Both entry points start with the same call of lex_gprog, so which of the
\* two runs is only told apart from here on.
LexGprogReturn ==
    /\ pc = "lex_gprog" /\ ~(line_start < Len(text))
    /\ pc' = "lexed"
    /\ UNCHANGED <<operands, outcome, text, pass, first, entry, line_start, line, ci, tokens, ti,
                   is_slashed, line_no, chunks, blocks, program, err>>

\* parse_gcode: return gcode_program(blocks)
ParseGcode ==
    /\ pc = "lexed"
    /\ entry' = "parse_gcode"
    /\ program' = gcode_program(blocks)
    /\ pc' = "done" /\ blocks' = <<>> /\ line_start' = 0
    /\ UNCHANGED <<operands, outcome, text, pass, first, line, ci, tokens, ti, is_slashed, line_no,
                   chunks, err>>

\* parse_gcode_saving_block_text: for (auto& b : blocks) b.set_debug_text()
SetDebugText ==
    /\ pc = "lexed" /\ pass = 1
    /\ entry' = "parse_gcode_saving_block_text"
    /\ blocks' = [k \in 1..Len(blocks) |-> set_debug_text(blocks[k])]
    /\ pc' = "text_saved"
    /\ UNCHANGED <<operands, outcome, text, pass, first, line_start, line, ci, tokens, ti, is_slashed,
                   line_no, chunks, program, err>>

\* parse_gcode_saving_block_text: return gcode_program(blocks)
ParseGcodeSavingBlockText ==
    /\ pc = "text_saved"
    /\ program' = gcode_program(blocks)
    /\ pc' = "done" /\ blocks' = <<>> /\ line_start' = 0
    /\ UNCHANGED <<operands, outcome, text, pass, first, entry, line, ci, tokens, ti, is_slashed,
                   line_no, chunks, err>>

\* A caller prints the program parse_gcode returned (operator<<) and calls
\* parse_gcode on the printed text.
PrintAndParseAgain ==
    /\ pc = "done" /\ pass = 1 /\ entry = "parse_gcode"
    /\ text' = program_print(program)
    /\ first' = [text |-> text, program |-> program] /\ pass' = 2
    /\ pc' = "lex_gprog" /\ entry' = "none" /\ program' = <<>>
    /\ UNCHANGED <<operands, outcome, line_start, line, ci, tokens, ti, is_slashed,
                   line_no, chunks, blocks, err>>

Next ==
    \/ LexGprogLine
    \/ LexBlockToken
    \/ LexBlockReturn
    \/ ParseTokensEmpty
    \/ ParseSlash
    \/ ParseLineNumber
    \/ ParseChunk
    \/ ParseTokensReturn
    \/ LexGprogReturn
    \/ ParseGcode
    \/ SetDebugText
    \/ ParseGcodeSavingBlockText
    \/ PrintAndParseAgain

Spec == Init /\ [][Next]_vars

\* The call runs on: a statement that can be executed is executed.
SpecLive == Spec /\ WF_vars(Next)

(***************************************************************************)
(* A client of the data model: it constructs three chunks, an address and  *)
(* a block, and calls equals and the typed accessors on them.  The parser  *)
(* does not run.                                                           *)
(***************************************************************************)
Zero == [neg |-> FALSE, m |-> 0, e |-> 0]
MinusZero == [neg |-> TRUE, m |-> 0, e |-> 0]
One == [neg |-> FALSE, m |-> 1, e |-> 0]
TwoAndHalf == [neg |-> FALSE, m |-> 25, e |-> 1]

SomeAddrs ==
    <<make_int_address(1), make_int_address(0), make_double_address(One),
      make_double_address(Zero), make_double_address(MinusZero),
      make_double_address(TwoAndHalf)>>

SomeChunks ==
    <<make_percent_chunk,
     make_comment("(", ")", Chars("a")), make_comment("[", "]", Chars("a")),
     make_comment("(", ")", <<>>),
     make_isolated_word("a"), make_isolated_word("X"),
     make_word_address("X", make_int_address(1)),
     make_word_address("X", make_double_address(One)),
     make_word_address("x", make_double_address(One)),
     make_word_address("X", make_double_address(Zero)),
     make_word_address("X", make_double_address(MinusZero))>>

SomeBlocks ==
    <<block_with_line_no(7, FALSE, <<make_percent_chunk>>),
      block_without_line_no(TRUE, <<>>)>>

InitData ==
    /\ text = <<>> /\ pass = 1 /\ first = [text |-> <<>>, program |-> <<>>]
    /\ pc = "lex_gprog" /\ entry = "none"
    /\ line_start = 0 /\ line = <<>> /\ ci = 0 /\ tokens = <<>> /\ ti = 0
    /\ is_slashed = FALSE /\ line_no = NoLineNo /\ chunks = <<>>
    /\ blocks = <<>> /\ program = <<>> /\ err = ""
    /\ \E i, j, k \in DOMAIN SomeChunks, n \in DOMAIN SomeAddrs, m \in DOMAIN SomeBlocks :
           operands = [x |-> SomeChunks[i], y |-> SomeChunks[j], z |-> SomeChunks[k],
                       ad |-> SomeAddrs[n], b |-> SomeBlocks[m]]
    /\ outcome = NoOutcome

\* Every method called here is const: the objects stay as constructed, and
\* the parser is not involved.
kept == <<operands, text, pass, first, pc, entry, line_start, line, ci, tokens, ti,
          is_slashed, line_no, chunks, blocks, program, err>>

\* operator==(chunk, chunk) on every pair the relation's laws speak of
ChunkEquals ==
    /\ outcome' = [op |-> "equals",
            xx |-> chunk_equals(operands.x, operands.x),
            xy |-> chunk_equals(operands.x, operands.y),
            yx |-> chunk_equals(operands.y, operands.x),
            yz |-> chunk_equals(operands.y, operands.z),
            xz |-> chunk_equals(operands.x, operands.z)]
    /\ UNCHANGED kept

AddrIntValue ==
    /\ outcome' = [op |-> "int_value", r |-> int_value(operands.ad)]
    /\ UNCHANGED kept

AddrDoubleValue ==
    /\ outcome' = [op |-> "double_value", r |-> double_value(operands.ad)]
    /\ UNCHANGED kept

BlockLineNumber ==
    /\ outcome' = [op |-> "line_number", r |-> line_number(operands.b)]
    /\ UNCHANGED kept

ChunkGetLeftDelim ==
    /\ outcome' = [op |-> "get_left_delim", r |-> get_left_delim(operands.x)]
    /\ UNCHANGED kept

ChunkGetRightDelim ==
    /\ outcome' = [op |-> "get_right_delim", r |-> get_right_delim(operands.x)]
    /\ UNCHANGED kept

ChunkGetCommentText ==
    /\ outcome' = [op |-> "get_comment_text", r |-> get_comment_text(operands.x)]
    /\ UNCHANGED kept

ChunkGetWord ==
    /\ outcome' = [op |-> "get_word", r |-> get_word(operands.x)]
    /\ UNCHANGED kept

ChunkGetAddress ==
    /\ outcome' = [op |-> "get_address", r |-> get_address(operands.x)]
    /\ UNCHANGED kept

ChunkGetSingleWord ==
    /\ outcome' = [op |-> "get_single_word", r |-> get_single_word(operands.x)]
    /\ UNCHANGED kept

NextData ==
    \/ ChunkEquals
    \/ AddrIntValue
    \/ AddrDoubleValue
    \/ BlockLineNumber
    \/ ChunkGetLeftDelim
    \/ ChunkGetRightDelim
    \/ ChunkGetCommentText
    \/ ChunkGetWord
    \/ ChunkGetAddress
    \/ ChunkGetSingleWord

SpecData == InitData /\ [][NextData]_vars

(***************************************************************************)
(* What the claims speak of, said without the parser's own operators.      *)
(***************************************************************************)
Range(f) == {f[k] : k \in DOMAIN f}

\* The segments of t between its '\n' characters, in order.
RECURSIVE SplitLines(_, _, _)
SplitLines(t, k, cur) ==
    IF k > Len(t) THEN <<cur>>
    ELSE IF t[k] = "\n" THEN <<cur>> \o SplitLines(t, k + 1, <<>>)
    ELSE SplitLines(t, k + 1, Append(cur, t[k]))

NonEmptyLines(t) == SelectSeq(SplitLines(t, 1, <<>>), LAMBDA l : l # <<>>)

White == {" ", "\t", "\r", "\f"}

\* The first character of l that is not white space ("" when there is none).
RECURSIVE FirstVisible(_)
FirstVisible(l) ==
    IF l = <<>> THEN ""
    ELSE IF Head(l) \in White THEN FirstVisible(Tail(l))
    ELSE Head(l)

Returned == pc = "done"

(***************************************************************************)
(* C1: whenever parse_gcode (or the saving variant) returns a program for  *)
(* a text, the program has exactly one block per line of non-zero length   *)
(* of the text (the segments between '\n', the last one included), none    *)
(* for a zero-length line, and the k-th block is the block of the k-th     *)
(* such line: it is deleted exactly when that line starts, after white     *)
(* space, with '/'.                                                        *)
(***************************************************************************)
C1_OneBlockPerLine ==
    Returned =>
        LET ls == NonEmptyLines(text) IN
        /\ Len(program) = Len(ls)
        /\ \A k \in 1..Len(ls) : program[k].slashed_out = (FirstVisible(ls[k]) = "/")

\* A returned program of three blocks from five lines, two of them of
\* length zero, the last one without '\n', deleted and kept blocks mixed.
C1_Witness ==
    /\ Returned /\ pass = 1
    /\ Len(SplitLines(text, 1, <<>>)) = 5 /\ Len(program) = 3
    /\ text[Len(text)] # "\n"
    /\ program[1].slashed_out /\ ~program[2].slashed_out /\ program[3].slashed_out

(***************************************************************************)
(* C2: for every text without ';' that parses, the printed program parses  *)
(* again, to as many blocks, each with a chunk sequence equal chunk for    *)
(* chunk (chunk_equals) to that of the block of the first parse.           *)
(***************************************************************************)
SameChunks(a, b) ==
    /\ Len(a) = Len(b)
    /\ \A k \in 1..Len(a) : chunk_equals(a[k], b[k])

C2_RoundTrip ==
    (pass = 2 /\ ";" \notin Range(first.text)) =>
        /\ pc # "failed"
        /\ Returned =>
              /\ Len(program) = Len(first.program)
              /\ \A k \in 1..Len(program) :
                    SameChunks(program[k].chunks, first.program[k].chunks)

(***************************************************************************)
(* The letter sets and numbers the claims name.                            *)
(***************************************************************************)
ClaimDoubleSet ==
    {"X", "Y", "Z", "A", "B", "C", "U", "V", "W", "I", "J", "K", "F", "R", "Q", "S", "E"}

ClaimIntSet == {"G", "H", "M", "N", "O", "T", "P", "D", "L"}

\* <<upper case, lower case>>
CasePairs ==
    { <<"X", "x">>, <<"Y", "y">>, <<"Z", "z">>, <<"A", "a">>, <<"B", "b">>,
      <<"C", "c">>, <<"U", "u">>, <<"V", "v">>, <<"W", "w">>, <<"I", "i">>,
      <<"J", "j">>, <<"K", "k">>, <<"F", "f">>, <<"R", "r">>, <<"Q", "q">>,
      <<"S", "s">>, <<"E", "e">>, <<"G", "g">>, <<"H", "h">>, <<"M", "m">>,
      <<"N", "n">>, <<"O", "o">>, <<"T", "t">>, <<"P", "p">>, <<"D", "d">>,
      <<"L", "l">> }

ClaimClassified ==
    ClaimDoubleSet \cup ClaimIntSet \cup {p[2] : p \in CasePairs}

\* Well-formed numbers with their values, written out: isint says whether
\* the text is an integer literal, int its value, dbl the value as a double.
NumberTable ==
    { [txt |-> Chars("0"),   isint |-> TRUE,  int |-> 0,  dbl |-> [neg |-> FALSE, m |-> 0,  e |-> 0]],
      [txt |-> Chars("5"),   isint |-> TRUE,  int |-> 5,  dbl |-> [neg |-> FALSE, m |-> 5,  e |-> 0]],
      [txt |-> Chars("-1"),  isint |-> TRUE,  int |-> -1, dbl |-> [neg |-> TRUE,  m |-> 1,  e |-> 0]],
      [txt |-> Chars(".5"),  isint |-> FALSE, int |-> 0,  dbl |-> [neg |-> FALSE, m |-> 5,  e |-> 1]],
      [txt |-> Chars("1.0"), isint |-> FALSE, int |-> 0,  dbl |-> [neg |-> FALSE, m |-> 1,  e |-> 0]],
      [txt |-> Chars("12"),  isint |-> TRUE,  int |-> 12, dbl |-> [neg |-> FALSE, m |-> 12, e |-> 0]] }

HasWordAddress(b, letter, tag, value) ==
    \E k \in 1..Len(b.chunks) :
        /\ b.chunks[k].chunk_tp = "CHUNK_TYPE_WORD_ADDRESS"
        /\ b.chunks[k].wad.wd = letter
        /\ b.chunks[k].wad.adr.ad_type = tag
        /\ b.chunks[k].wad.adr.val = value

\* The parse of the one-line text "<letter><number>" gives a block with the
\* word address (letter, tag, value).
WordLineGives(letter, number, tag, value) ==
    (pass = 1 /\ text = <<letter>> \o number) =>
        /\ pc # "failed"
        /\ Returned => Len(program) = 1
                       /\ HasWordAddress(program[1], letter, tag, value)

DoubleWordLines(letters) ==
    \A c \in letters : \A n \in NumberTable :
        WordLineGives(c, n.txt, "ADDRESS_TYPE_DOUBLE", n.dbl)

IntWordLines(letters) ==
    \A c \in letters : \A n \in {r \in NumberTable : r.isint} :
        WordLineGives(c, n.txt, "ADDRESS_TYPE_INTEGER", n.int)

C4_CaseInsensitive ==
    \A p \in CasePairs : \A n \in {r \in NumberTable : r.isint} :
        WordLineGives(p[2], n.txt,
                      IF p[1] \in ClaimDoubleSet THEN "ADDRESS_TYPE_DOUBLE"
                      ELSE "ADDRESS_TYPE_INTEGER",
                      IF p[1] \in ClaimDoubleSet THEN n.dbl ELSE n.int)

(***************************************************************************)
(* C5.  A token is "unknown before a number" when it is one character      *)
(* outside the classified letter set and the token after it starts with a  *)
(* digit, '.' or '-'.                                                      *)
(***************************************************************************)
NumericStart(t) == t # <<>> /\ (t[1] \in Digits \/ t[1] = "." \/ t[1] = "-")

UnknownBeforeNumber(toks, j) ==
    /\ j >= 1 /\ j < Len(toks)
    /\ Len(toks[j]) = 1 /\ toks[j][1] \notin ClaimClassified
    /\ NumericStart(toks[j + 1])

\* C5 as claimed: the parse of a line never gets past a token that is
\* unknown before a number (it fails there, and the line gives no block).
C5_Original ==
    (pc = "parse_chunk") =>
        \A j \in 1..Len(tokens) : UnknownBeforeNumber(tokens, j) => ti < j

\* C5 as amended: when parse_chunk is called on a token other than "%" and
\* ";" that is unknown before a number, the parse fails in parse_address
\* (UnknownAddressLetter): no chunk, and no block for the line.
C5_UnknownLetterFails ==
    [][ ( /\ pc = "parse_chunk" /\ chars_left(tokens, ti)
          /\ UnknownBeforeNumber(tokens, ti + 1)
          /\ tokens[ti + 1] \notin {<<"%">>, <<";">>} )
        => (pc' = "failed" /\ err' = "UnknownAddressLetter" /\ blocks' = <<>>) ]_vars

\* The parse of "?5" has failed on its unknown letter.
C5_Witness ==
    /\ pc = "failed" /\ err = "UnknownAddressLetter" /\ text = Chars("?5")

(***************************************************************************)
(* C6.  MatchClose(l, p, op, cl, depth) is the position of the closer that *)
(* brings the depth back to 0, scanning l from position p (0: none).       *)
(***************************************************************************)
RECURSIVE MatchClose(_, _, _, _, _)
MatchClose(l, p, op, cl, depth) ==
    IF p > Len(l) THEN 0
    ELSE IF l[p] = op THEN MatchClose(l, p + 1, op, cl, depth + 1)
    ELSE IF l[p] = cl
    THEN (IF depth = 1 THEN p ELSE MatchClose(l, p + 1, op, cl, depth - 1))
    ELSE MatchClose(l, p + 1, op, cl, depth)

RECURSIVE SkipWhite(_, _)
SkipWhite(l, p) == IF p <= Len(l) /\ l[p] \in White THEN SkipWhite(l, p + 1) ELSE p

Closer(op) == IF op = "(" THEN ")" ELSE "]"

\* A lexer step that starts on the opener of a balanced comment appends
\* exactly the span up to the matching closer, and stops right after it.
BalancedLexStep ==
    (pc = "lex_block" /\ SkipWhite(line, ci + 1) <= Len(line)) =>
        LET p  == SkipWhite(line, ci + 1)
            op == line[p]
            q  == IF op \in {"(", "["} THEN MatchClose(line, p, op, Closer(op), 0) ELSE 0
        IN  q > 0 => /\ tokens' = Append(tokens, SubSeq(line, p, q))
                     /\ ci' = q
                     /\ pc' = "lex_block"

\* parse_chunk on a balanced comment token appends exactly one Comment with
\* that pair of delimiters and the token's inside as its text.
BalancedParseStep ==
    (pc = "parse_chunk" /\ chars_left(tokens, ti)) =>
        LET t  == tokens[ti + 1]
            op == t[1]
        IN  (op \in {"(", "["} /\ MatchClose(t, 1, op, Closer(op), 0) = Len(t)) =>
                /\ chunks' = Append(chunks,
                        [chunk_tp |-> "CHUNK_TYPE_COMMENT",
                         cd |-> [left_delim |-> op, right_delim |-> Closer(op),
                                 comment_text |-> SubSeq(t, 2, Len(t) - 1)]])
                /\ ti' = ti + 1
                /\ pc' = "parse_chunk"

NestedExample == Chars("G1 (nested (deep) comment) X1")

NestedExampleChunks ==
    << [chunk_tp |-> "CHUNK_TYPE_WORD_ADDRESS",
        wad |-> [wd |-> "G", adr |-> [ad_type |-> "ADDRESS_TYPE_INTEGER", val |-> 1]]],
       [chunk_tp |-> "CHUNK_TYPE_COMMENT",
        cd |-> [left_delim |-> "(", right_delim |-> ")",
                comment_text |-> Chars("nested (deep) comment")]],
       [chunk_tp |-> "CHUNK_TYPE_WORD_ADDRESS",
        wad |-> [wd |-> "X",
                 adr |-> [ad_type |-> "ADDRESS_TYPE_DOUBLE",
                          val |-> [neg |-> FALSE, m |-> 1, e |-> 0]]]] >>

(***************************************************************************)
(* C6: a balanced, nested parenthesis or bracket comment lexes to exactly  *)
(* one token, the span from its opener to the matching closer, and         *)
(* parse_chunk turns that token into exactly one Comment with that pair of *)
(* delimiters and the span without its two outer delimiters as text; the   *)
(* line "G1 (nested (deep) comment) X1" gives G 1, the comment, X 1.0.     *)
(***************************************************************************)
C6_NestedComment ==
    /\ [](text = NestedExample =>
            /\ pc # "failed"
            /\ Returned => Len(program) = 1 /\ program[1].chunks = NestedExampleChunks)
    /\ [][BalancedLexStep /\ BalancedParseStep]_vars

\* The example line has been parsed to its three chunks.
C6_Witness ==
    /\ Returned /\ text = NestedExample
    /\ Len(program[1].chunks) = 3
    /\ program[1].chunks[2].cd.comment_text = Chars("nested (deep) comment")

(***************************************************************************)
(* C7: parse_tokens sets the deletion flag exactly when the first token is *)
(* "/"; the "/" is then consumed (the cursor is 1 after parse_slash) and   *)
(* is no chunk of the block: the block has fewer Word '/' chunks than the  *)
(* line has "/" tokens; otherwise nothing is consumed (the cursor is 0).   *)
(* The block that parse_tokens returns carries that flag.                  *)
(***************************************************************************)
Count(seq, x) == Cardinality({k \in 1..Len(seq) : seq[k] = x})

FirstIsSlash(toks) == toks # <<>> /\ toks[1] = <<"/">>

C7_Flag ==
    /\ pc \in {"parse_line_number", "parse_chunk"} => is_slashed = FirstIsSlash(tokens)
    /\ pc = "parse_line_number" => ti = (IF FirstIsSlash(tokens) THEN 1 ELSE 0)
    /\ (pc = "parse_chunk" /\ FirstIsSlash(tokens)) =>
           Count(chunks, [chunk_tp |-> "CHUNK_TYPE_WORD", single_word |-> "/"])
               < Count(tokens, <<"/">>)

C7_Block ==
    (pc = "parse_tokens" \/ pc = "parse_chunk") /\ pc' = "lex_gprog" =>
        /\ blocks'[Len(blocks')].slashed_out = FirstIsSlash(tokens)
        /\ FirstIsSlash(tokens) =>
              Count(blocks'[Len(blocks')].chunks,
                    [chunk_tp |-> "CHUNK_TYPE_WORD", single_word |-> "/"])
                  < Count(tokens, <<"/">>)

C7_DeletionFlag == []C7_Flag /\ [][C7_Block]_vars

\* A deleted block whose line holds a second "/", which is a Word chunk.
C7_Witness ==
    /\ Returned /\ pass = 1 /\ Len(program) = 1
    /\ program[1].slashed_out
    /\ program[1].chunks # <<>>
    /\ program[1].chunks[1] = [chunk_tp |-> "CHUNK_TYPE_WORD", single_word |-> "/"]

(***************************************************************************)
(* C8: after the optional "/", the block has a line number exactly when    *)
(* the next token is "N"; then the token after it is an integer, the line  *)
(* number is its value and both tokens are consumed; otherwise no token is *)
(* consumed.  (Said of the state right after parse_line_number.)           *)
(***************************************************************************)
\* The value of an integer literal (an optional '-' and digits only).
RECURSIVE DigitsValue(_, _)
DigitsValue(t, acc) ==
    IF t = <<>> THEN acc ELSE DigitsValue(Tail(t), 10 * acc + DigitVal(Head(t)))

IsIntLiteral(t) ==
    LET ds == IF t # <<>> /\ t[1] = "-" THEN Tail(t) ELSE t IN
    ds # <<>> /\ \A k \in 1..Len(ds) : ds[k] \in Digits

IntLiteralValue(t) ==
    IF t[1] = "-" THEN -DigitsValue(Tail(t), 0) ELSE DigitsValue(t, 0)

C8_LineNumber ==
    (pc = "parse_chunk" /\ chunks = <<>>) =>
        LET s0   == IF FirstIsSlash(tokens) THEN 1 ELSE 0
            hasN == s0 < Len(tokens) /\ tokens[s0 + 1] = <<"N">>
        IN  /\ line_no[1] = hasN
            /\ hasN => /\ s0 + 1 < Len(tokens)
                       /\ IsIntLiteral(tokens[s0 + 2])
                       /\ line_no[2] = IntLiteralValue(tokens[s0 + 2])
                       /\ ti = s0 + 2
            /\ ~hasN => ti = s0

(***************************************************************************)
(* C9: every block of the program that parse_gcode_saving_block_text       *)
(* returns has, as debug text, the printed form of the block.              *)
(***************************************************************************)
C9_RenderedText ==
    (Returned /\ entry = "parse_gcode_saving_block_text") =>
        \A k \in 1..Len(program) : program[k].debug_text = block_print(program[k])

(***************************************************************************)
(* C10: every block of the program that parse_gcode_saving_block_text      *)
(* returns keeps the unmodified source text of its line, and no block of   *)
(* a program that parse_gcode returns keeps any text.                      *)
(***************************************************************************)
C10_SourceText ==
    /\ (Returned /\ entry = "parse_gcode_saving_block_text") =>
           LET ls == NonEmptyLines(text) IN
           /\ Len(program) = Len(ls)
           /\ \A k \in 1..Len(program) : program[k].debug_text = ls[k]
    /\ (Returned /\ entry = "parse_gcode") =>
           \A k \in 1..Len(program) : program[k].debug_text = <<>>

(***************************************************************************)
(* C11: lex_block("G01 X10.0 Y5.0 F200") returns exactly the four tokens   *)
(* "G01", "X10.0", "Y5.0", "F200": one token per word, the letter and its  *)
(* number in the same token.                                               *)
(***************************************************************************)
DocExampleLine == Chars("G01 X10.0 Y5.0 F200")

C11_DocExampleTokens ==
    (pc = "parse_tokens" /\ line = DocExampleLine) =>
        tokens = <<Chars("G01"), Chars("X10.0"), Chars("Y5.0"), Chars("F200")>>

(***************************************************************************)
(* C12: the printed program is, block after block in block order, the      *)
(* block's rendering followed by a line break; a block's rendering is "N", *)
(* the line number and one space exactly when the block has a line number, *)
(* then every chunk's rendering in chunk order, each followed by exactly   *)
(* one space, the last one included.                                       *)
(***************************************************************************)
\* The concatenation of f[1], ..., f[n].
RECURSIVE Concat(_, _)
Concat(f, n) == IF n = 0 THEN <<>> ELSE Concat(f, n - 1) \o f[n]

RenderBlock(b) ==
    LET prefix == IF b.has_line_no THEN <<"N">> \o IntText(b.line_no) \o <<" ">>
                  ELSE <<>>
        pieces == [k \in 1..Len(b.chunks) |-> chunk_print(b.chunks[k]) \o <<" ">>]
    IN  prefix \o Concat(pieces, Len(pieces))

RenderProgram(p) ==
    Concat([k \in 1..Len(p) |-> RenderBlock(p[k]) \o <<"\n">>], Len(p))

C12_Rendering == pass = 2 => text = RenderProgram(first.program)

\* A printed program of three blocks: one with a line number and a chunk,
\* one without chunks, one without a line number.
C12_Witness ==
    /\ pass = 2 /\ Len(first.program) = 3
    /\ first.program[1].has_line_no /\ first.program[1].chunks # <<>>
    /\ first.program[2].chunks = <<>>
    /\ ~first.program[3].has_line_no /\ first.program[3].chunks # <<>>
    /\ text = Chars("N10 G1 \n\nM2 \n")

(***************************************************************************)
(* C15: a failure while lexing or parsing a line ends the call: no program *)
(* is returned, the blocks of the earlier lines are gone with the call,    *)
(* and nothing runs after the failure.  So no program is ever returned for *)
(* a text with a line that cannot parse: one that starts with an unmatched *)
(* closer, or one that is an unclassified letter before a number.          *)
(***************************************************************************)
Closers == {")", "]"}

\* A line that fails whatever the rest of the text is.
FailingLine(l) ==
    \/ FirstVisible(l) \in Closers
    \/ l \in {<<"?", "5">>, <<"e", "0">>, <<"X", "-">>}

C15_Failed == pc = "failed" => (program = <<>> /\ blocks = <<>> /\ err # "")

C15_Stops ==
    /\ pc = "failed" => pc' = "failed"
    /\ (err = "" /\ err' # "") => (pc' = "failed" /\ blocks' = <<>> /\ program' = <<>>)

C15_NoProgram ==
    (Returned /\ pass = 1) =>
        \A k \in 1..Len(NonEmptyLines(text)) : ~FailingLine(NonEmptyLines(text)[k])

C15_FailFast == [](C15_Failed /\ C15_NoProgram) /\ [][C15_Stops]_vars

\* The second of three lines fails after the first one gave a block.
C15_Witness ==
    /\ pc = "failed" /\ err = "LexError"
    /\ text = Chars("%\n)\n%")
    /\ blocks = <<>> /\ program = <<>>

(***************************************************************************)
(* C19: a line of non-zero length made of spaces, tabs and carriage        *)
(* returns only lexes to no token, and parse_tokens then returns a block   *)
(* with no chunk, no line number and the deletion flag false, which        *)
(* becomes the next block of the program.                                  *)
(***************************************************************************)
BlankLine(l) == l # <<>> /\ \A k \in 1..Len(l) : l[k] \in {" ", "\t", "\r"}

EmptyBlock ==
    [has_line_no |-> FALSE, line_no |-> -1, slashed_out |-> FALSE,
     chunks |-> <<>>, debug_text |-> <<>>]

C19_Lexed == (pc = "parse_tokens" /\ BlankLine(line)) => tokens = <<>>

C19_Appended ==
    (pc = "parse_tokens" /\ tokens = <<>>) =>
        (pc' = "lex_gprog" /\ blocks' = Append(blocks, EmptyBlock))

C19_Returned ==
    Returned =>
        \A k \in 1..Len(NonEmptyLines(text)) :
            BlankLine(NonEmptyLines(text)[k]) =>
                (k <= Len(program) /\ program[k] = EmptyBlock)

C19_BlankLineBlock == [](C19_Lexed /\ C19_Returned) /\ [][C19_Appended]_vars

\* The "\r" between two line breaks of a CRLF text is the second block.
C19_Witness ==
    /\ Returned /\ pass = 1 /\ text = Chars("N10 G1\r\n\r\nM2\n")
    /\ Len(program) = 3 /\ program[2] = EmptyBlock

(***************************************************************************)
(* C20: a token that the lexer starts on a digit, '.' or '-' is the        *)
(* longest run of such characters from there: it holds no other character  *)
(* and the character after it in the line, if any, is not one of them.     *)
(***************************************************************************)
NumChars == Digits \cup {".", "-"}

\* The end of the longest run of NumChars that starts at position p of l.
RunEnd(l, p) ==
    CHOOSE q \in p..Len(l) :
        /\ \A k \in p..q : l[k] \in NumChars
        /\ q < Len(l) => l[q + 1] \notin NumChars

C20_Step ==
    (pc = "lex_block" /\ SkipWhite(line, ci + 1) <= Len(line)) =>
        LET p == SkipWhite(line, ci + 1) IN
        line[p] \in NumChars =>
            /\ tokens' = Append(tokens, SubSeq(line, p, RunEnd(line, p)))
            /\ ci' = RunEnd(line, p)
            /\ \A k \in 1..Len(tokens'[Len(tokens')]) :
                   tokens'[Len(tokens')][k] \notin {"e", "E", "+"}

C20_MaximalNumber == [][C20_Step]_vars

\* The printed 1e+06 is lexed again: 'e' and '+' end the numeric tokens.
C20_Witness ==
    /\ pc = "parse_tokens" /\ pass = 2
    /\ tokens = <<Chars("G"), Chars("1"), Chars("X"), Chars("1"), Chars("e"),
                  Chars("+"), Chars("06")>>

(***************************************************************************)
(* C16: when parse_chunk takes its default branch on the last token of the *)
(* line, the parse fails with a defined error (a contract violation) and   *)
(* no chunk and no block is produced for the line.                         *)
(***************************************************************************)
\* The tokens on which parse_chunk takes none of its first four branches.
DefaultBranch(t) == t # <<>> /\ t[1] \notin {"(", "["} /\ t \notin {<<"%">>, <<";">>}

C16_Step ==
    (pc = "parse_chunk" /\ ti + 1 = Len(tokens) /\ DefaultBranch(tokens[ti + 1])) =>
        /\ pc' = "failed" /\ err' \in {"Assert", "UnexpectedToken"}
        /\ blocks' = <<>>

C16_TrailingLetterFails == [][C16_Step]_vars

(***************************************************************************)
(* C17: no WordAddress and no line number is built from a prefix of a      *)
(* numeric token: the token that gave an integer address or a line number  *)
(* is, as a whole, an optional '-' and digits, and the token that gave a   *)
(* double address is, as a whole, an optional '-' and digits with at most  *)
(* one '.'; any other numeric token makes the parse fail.                  *)
(***************************************************************************)
IsDoubleLiteral(t) ==
    LET ds == IF t # <<>> /\ t[1] = "-" THEN Tail(t) ELSE t IN
    /\ \A k \in 1..Len(ds) : ds[k] \in Digits \cup {"."}
    /\ \E k \in 1..Len(ds) : ds[k] \in Digits
    /\ Cardinality({k \in 1..Len(ds) : ds[k] = "."}) <= 1

C17_WholeToken ==
    /\ (pc = "parse_chunk" /\ chunks # <<>> /\ ti \in 1..Len(tokens)
        /\ chunks[Len(chunks)].chunk_tp = "CHUNK_TYPE_WORD_ADDRESS") =>
           IF chunks[Len(chunks)].wad.adr.ad_type = "ADDRESS_TYPE_INTEGER"
           THEN IsIntLiteral(tokens[ti])
           ELSE IsDoubleLiteral(tokens[ti])
    /\ (pc = "parse_chunk" /\ chunks = <<>> /\ line_no[1] /\ ti \in 1..Len(tokens)) =>
           IsIntLiteral(tokens[ti])

(***************************************************************************)
(* C18: spaces and carriage returns outside comments are insignificant:    *)
(* every line that is "X12Y3" once its spaces and carriage returns are     *)
(* taken out parses, and to the block of "X12Y3": X 12.0, Y 3.0.           *)
(***************************************************************************)
Strip(t) == SelectSeq(t, LAMBDA c : c \notin {" ", "\r"})

CompactLine == Chars("X12Y3")

CompactBlock ==
    [has_line_no |-> FALSE, line_no |-> -1, slashed_out |-> FALSE,
     chunks |-> << make_word_address("X", make_double_address([neg |-> FALSE, m |-> 12, e |-> 0])),
                   make_word_address("Y", make_double_address([neg |-> FALSE, m |-> 3, e |-> 0])) >>,
     debug_text |-> <<>>]

C18_SpacesInsignificant ==
    (pass = 1 /\ Strip(text) = CompactLine) =>
        /\ pc # "failed"
        /\ Returned => program = <<CompactBlock>>

(***************************************************************************)
(* C13: chunk equality is reflexive, symmetric and transitive, and two     *)
(* chunks are equal exactly when they are of the same variant and: both    *)
(* Percent; or Comments with the same two delimiters and the same text; or *)
(* Words with the same character; or WordAddresses with the same letter    *)
(* (case-sensitively), the same address tag and the same value (integer 1  *)
(* is not double 1.0).  The double values are numbers.                     *)
(***************************************************************************)
\* The number d times 10^E, an integer when E >= d.e
Scaled(d, E) == (IF d.neg THEN -1 ELSE 1) * d.m * Pow10(E - d.e)

SameNumber(d1, d2) ==
    LET E == IF d1.e > d2.e THEN d1.e ELSE d2.e IN Scaled(d1, E) = Scaled(d2, E)

SameAddress(a1, a2) ==
    /\ a1.ad_type = a2.ad_type
    /\ IF a1.ad_type = "ADDRESS_TYPE_INTEGER" THEN a1.val = a2.val
       ELSE SameNumber(a1.val, a2.val)

ExactlySame(c1, c2) ==
    /\ c1.chunk_tp = c2.chunk_tp
    /\ c1.chunk_tp = "CHUNK_TYPE_COMMENT" =>
           /\ c1.cd.left_delim = c2.cd.left_delim
           /\ c1.cd.right_delim = c2.cd.right_delim
           /\ c1.cd.comment_text = c2.cd.comment_text
    /\ c1.chunk_tp = "CHUNK_TYPE_WORD" => c1.single_word = c2.single_word
    /\ c1.chunk_tp = "CHUNK_TYPE_WORD_ADDRESS" =>
           (c1.wad.wd = c2.wad.wd /\ SameAddress(c1.wad.adr, c2.wad.adr))

C13_ChunkEquality ==
    outcome.op = "equals" =>
        /\ outcome.xx
        /\ outcome.xy = outcome.yx
        /\ (outcome.xy /\ outcome.yz) => outcome.xz
        /\ outcome.xy = ExactlySame(operands.x, operands.y)
        /\ outcome.yz = ExactlySame(operands.y, operands.z)
        /\ outcome.xz = ExactlySame(operands.x, operands.z)

\* X with integer 1 compared with X with double 1.0, and that one with x 1.0
C13_Witness ==
    /\ outcome.op = "equals"
    /\ operands.x.chunk_tp = "CHUNK_TYPE_WORD_ADDRESS"
    /\ operands.y.chunk_tp = "CHUNK_TYPE_WORD_ADDRESS"
    /\ operands.z.chunk_tp = "CHUNK_TYPE_WORD_ADDRESS"
    /\ operands.x.wad.wd = "X" /\ operands.y.wad.wd = "X" /\ operands.z.wad.wd = "x"
    /\ operands.x.wad.adr.ad_type = "ADDRESS_TYPE_INTEGER"
    /\ operands.x.wad.adr.val = 1
    /\ operands.y.wad.adr.ad_type = "ADDRESS_TYPE_DOUBLE"
    /\ operands.y.wad.adr.val = One
    /\ operands.z.wad.adr.ad_type = "ADDRESS_TYPE_DOUBLE"
    /\ operands.z.wad.adr.val = One
    /\ ~outcome.xy /\ ~outcome.yz /\ outcome.xx

(***************************************************************************)
(* C14: no call changes an object (an address keeps the tag it was         *)
(* constructed with), and a typed accessor returns a value only on the     *)
(* matching tag, variant or flag, the stored one: int_value on a double    *)
(* address, double_value on an integer address, line_number on a block     *)
(* without line number and a comment, word-address or word accessor on a   *)
(* chunk of another variant fail their assert and return nothing.          *)
(***************************************************************************)
Guarded(r, allowed, value) == r = (IF allowed THEN [ok |-> TRUE, val |-> value]
                                   ELSE [ok |-> FALSE])

C14_Guards ==
    LET x  == operands.x
        tp == x.chunk_tp
        r  == outcome.r
    IN
    /\ outcome.op = "int_value" =>
           Guarded(r, operands.ad.ad_type = "ADDRESS_TYPE_INTEGER", operands.ad.val)
    /\ outcome.op = "double_value" =>
           Guarded(r, operands.ad.ad_type = "ADDRESS_TYPE_DOUBLE", operands.ad.val)
    /\ outcome.op = "line_number" =>
           Guarded(r, operands.b.has_line_no, operands.b.line_no)
    /\ outcome.op = "get_left_delim" =>
           Guarded(r, tp = "CHUNK_TYPE_COMMENT", x.cd.left_delim)
    /\ outcome.op = "get_right_delim" =>
           Guarded(r, tp = "CHUNK_TYPE_COMMENT", x.cd.right_delim)
    /\ outcome.op = "get_comment_text" =>
           Guarded(r, tp = "CHUNK_TYPE_COMMENT", x.cd.comment_text)
    /\ outcome.op = "get_word" =>
           Guarded(r, tp = "CHUNK_TYPE_WORD_ADDRESS", x.wad.wd)
    /\ outcome.op = "get_address" =>
           Guarded(r, tp = "CHUNK_TYPE_WORD_ADDRESS", x.wad.adr)
    /\ outcome.op = "get_single_word" =>
           Guarded(r, tp = "CHUNK_TYPE_WORD", x.single_word)

C14_GuardedAccessors == []C14_Guards /\ [][operands' = operands]_vars

\* int_value was called on a double address and failed.
C14_Witness ==
    /\ outcome.op = "int_value"
    /\ operands.ad.ad_type = "ADDRESS_TYPE_DOUBLE"
    /\ ~outcome.r.ok

(***************************************************************************)
(* C21: a ')' or ']' at a token start, that is outside every parenthesis   *)
(* or bracket comment scan, makes lexing the line fail, also when it comes *)
(* after a ';': lex_block returns no tokens for such a line, and no        *)
(* program is returned for a text with such a line.                        *)
(***************************************************************************)
\* l has, from position p on (p a token start), a closer at a token start.
RECURSIVE BareCloser(_, _)
BareCloser(l, p) ==
    IF p > Len(l) THEN FALSE
    ELSE IF l[p] \in Closers THEN TRUE
    ELSE IF l[p] \in {"(", "["}
    THEN LET q == MatchClose(l, p, l[p], Closer(l[p]), 0) IN
         IF q = 0 THEN FALSE ELSE BareCloser(l, q + 1)
    ELSE BareCloser(l, p + 1)

C21_NoTokens ==
    /\ pc \in {"parse_tokens", "parse_line_number", "parse_chunk"} => ~BareCloser(line, 1)
    /\ (Returned /\ pass = 1) =>
           \A k \in 1..Len(NonEmptyLines(text)) : ~BareCloser(NonEmptyLines(text)[k], 1)

C21_Step ==
    (pc = "lex_block" /\ SkipWhite(line, ci + 1) <= Len(line)
     /\ line[SkipWhite(line, ci + 1)] \in Closers) =>
        (pc' = "failed" /\ err' = "LexError")

C22_CommentGivesToken ==
    (pc = "parse_chunk" /\ chunks # <<>> /\ ti \in 1..Len(tokens)
     /\ tokens[ti][1] \in {"(", "["}
     /\ chunks[Len(chunks)].chunk_tp = "CHUNK_TYPE_COMMENT"
     /\ chunks[Len(chunks)].cd.left_delim = tokens[ti][1]) =>
        LET cd == chunks[Len(chunks)].cd IN
        <<cd.left_delim>> \o cd.comment_text \o <<cd.right_delim>> = tokens[ti]

(***************************************************************************)
(* C23: on the token ";" parse_chunk consumes every remaining token of the *)
(* line and appends Comment(';', ';', text), text being those tokens put   *)
(* together in order with nothing between them; so a ';' comment is the    *)
(* last chunk of its block.                                                *)
(***************************************************************************)
IsLineComment(c) == c.chunk_tp = "CHUNK_TYPE_COMMENT" /\ c.cd.left_delim = ";"

LineCommentLast(cs) == \A k \in 1..Len(cs) : IsLineComment(cs[k]) => k = Len(cs)

C23_Step ==
    (pc = "parse_chunk" /\ ti < Len(tokens) /\ tokens[ti + 1] = <<";">>) =>
        LET rest == [k \in 1..(Len(tokens) - ti - 1) |-> tokens[ti + 1 + k]] IN
        /\ chunks' = Append(chunks,
               [chunk_tp |-> "CHUNK_TYPE_COMMENT",
                cd |-> [left_delim |-> ";", right_delim |-> ";",
                        comment_text |-> Concat(rest, Len(rest))]])
        /\ ti' = Len(tokens)
        /\ pc' = "parse_chunk"

C23_Blocks ==
    /\ pc = "parse_chunk" => (chunks # <<>> /\ IsLineComment(chunks[Len(chunks)])
                                  => ti >= Len(tokens))
    /\ \A k \in 1..Len(blocks) : LineCommentLast(blocks[k].chunks)
    /\ \A k \in 1..Len(program) : LineCommentLast(program[k].chunks)

C23_LineComment == []C23_Blocks /\ [][C23_Step]_vars

\* "G1 ; a (b) N": the five tokens after the ';' are one comment, the last chunk.
C23_Witness ==
    /\ Returned /\ pass = 1 /\ text = Chars("G1 ; a (b) N")
    /\ Len(program[1].chunks) = 2
    /\ IsLineComment(program[1].chunks[2])
    /\ program[1].chunks[2].cd.comment_text = Chars("a(b)N")

(***************************************************************************)
(* The letters parse_address accepts, by the kind of their address.        *)
(***************************************************************************)
AcceptedDouble ==
    (ClaimDoubleSet \cup {p[2] : p \in {q \in CasePairs : q[1] \in ClaimDoubleSet}})
        \ {"e"}

AcceptedInt == ClaimIntSet \cup {p[2] : p \in {q \in CasePairs : q[1] \in ClaimIntSet}}

\* The step of parse_chunk on the default-branch token cur, before the token nxt.
WordStep(cur) ==
    /\ ti' = ti + 1
    /\ chunks' = Append(chunks, [chunk_tp |-> "CHUNK_TYPE_WORD", single_word |-> cur[1]])

WordAddressStep(cur) ==
    /\ ti' = ti + 2
    /\ Len(chunks') = Len(chunks) + 1
    /\ SubSeq(chunks', 1, Len(chunks)) = chunks
    /\ chunks'[Len(chunks')].chunk_tp = "CHUNK_TYPE_WORD_ADDRESS"
    /\ chunks'[Len(chunks')].wad.wd = cur[1]

DefaultWithFollower ==
    pc = "parse_chunk" /\ ti + 1 < Len(tokens) /\ DefaultBranch(tokens[ti + 1])

IsWord(c) == c.chunk_tp = "CHUNK_TYPE_WORD"

\* No Word chunk is immediately followed by the Word of a numeric character.
NoNumberAfterWord(cs) ==
    \A k \in 1..(Len(cs) - 1) :
        IsWord(cs[k]) => ~(IsWord(cs[k + 1]) /\ cs[k + 1].single_word \in NumChars)

C24_Step ==
    DefaultWithFollower =>
        LET cur    == tokens[ti + 1]
            nxt    == tokens[ti + 2]
            fails  == pc' = "failed" /\ blocks' = <<>>
            number == \/ cur[1] \in AcceptedDouble /\ IsDoubleLiteral(nxt)
                      \/ cur[1] \in AcceptedInt /\ IsIntLiteral(nxt) /\ Len(nxt) <= 9
        IN  IF NumericStart(nxt)
            THEN /\ WordAddressStep(cur) \/ fails
                 /\ (Len(cur) = 1 /\ number) => WordAddressStep(cur)
                 /\ (Len(cur) # 1 \/ cur[1] \notin AcceptedDouble \cup AcceptedInt) => fails
            ELSE IF Len(cur) = 1 THEN WordStep(cur) ELSE fails

C25_Step ==
    /\ (pc = "lex_block" /\ Len(tokens') > Len(tokens)) =>
           (ci' > ci /\ Len(tokens') = Len(tokens) + 1)
    /\ (pc = "parse_chunk" /\ pc' = "parse_chunk") =>
           /\ ti' > ti
           /\ Len(chunks') = Len(chunks) + 1
           /\ SubSeq(chunks', 1, Len(chunks)) = chunks
    /\ (pc' = "lex_gprog" /\ pass' = pass) => line_start' > line_start
    /\ (pc \in {"parse_tokens", "parse_chunk"} /\ pc' = "lex_gprog") =>
           Len(blocks'[Len(blocks')].chunks) <= Len(tokens)

C25_Bound == pc = "parse_chunk" => Len(chunks) <= Len(tokens)

C25_Progress == [][C25_Step]_vars /\ []C25_Bound /\ <>(pc \in {"done", "failed"})

\* The four-line program has been returned, its longest line having given
\* three chunks from six tokens.
C25_Witness ==
    /\ Returned /\ pass = 1 /\ Len(program) = 4
    /\ Len(program[2].chunks) = 4 /\ Len(program[3].chunks) = 3

(***************************************************************************)
(* C26: every read of the token vector during parse_tokens, by next() in   *)
(* parse_line_number, parse_chunk, parse_int and parse_double and by the   *)
(* one-token lookahead, is at an index smaller than the number of tokens.  *)
(***************************************************************************)
C26_TokenReadsInBounds ==
    /\ pc = "parse_line_number" =>
           \A k \in parse_line_number_reads(tokens, ti) : k < Len(tokens)
    /\ (pc = "parse_chunk" /\ chars_left(tokens, ti)) =>
           \A k \in parse_chunk_reads(tokens, ti) : k < Len(tokens)

(***************************************************************************)
(* C27: every read of the character stream during lex_block, in            *)
(* ignore_whitespace, lex_token, digit_string and the comment scan, is at  *)
(* an index smaller than the length of the line, and the cursor is never   *)
(* beyond the length of the line.                                          *)
(***************************************************************************)
C27_Cursor ==
    pc = "lex_block" =>
        /\ ci <= Len(line)
        /\ \A k \in ignore_whitespace_reads(line, 0) : k < Len(line)
        /\ chars_left(line, ci) => \A k \in lex_block_reads(line, ci) : k < Len(line)

C27_Step == pc = "lex_block" => ci' <= Len(line)

C27_CharReadsInBounds == []C27_Cursor /\ [][C27_Step]_vars

\* An unbalanced comment has been scanned to the end of the line.
C27_Witness ==
    /\ pc = "lex_block" /\ line = <<"(", "N", " ">>
    /\ tokens = << <<"(", "N", " ">> >> /\ ci = Len(line)

(***************************************************************************)
(* C28: for every line that lexes, no token is empty or starts with white  *)
(* space, and the tokens of lex_block put together in order are the line   *)
(* without its white space outside parenthesis and bracket comments: no    *)
(* character is lost, changed or moved.                                    *)
(***************************************************************************)
\* l from position p (a token start) on, white space outside comments removed.
RECURSIVE StripOutside(_, _)
StripOutside(l, p) ==
    IF p > Len(l) THEN <<>>
    ELSE IF l[p] \in White THEN StripOutside(l, p + 1)
    ELSE IF l[p] \in {"(", "["}
    THEN LET q == MatchClose(l, p, l[p], Closer(l[p]), 0)
             e == IF q = 0 THEN Len(l) ELSE q
         IN  SubSeq(l, p, e) \o StripOutside(l, e + 1)
    ELSE <<l[p]>> \o StripOutside(l, p + 1)

C28_LexerKeepsAll ==
    /\ pc \in {"lex_block", "parse_tokens", "parse_line_number", "parse_chunk"} =>
           \A k \in 1..Len(tokens) : tokens[k] # <<>> /\ tokens[k][1] \notin White
    /\ pc = "lex_block" =>
           Concat(tokens, Len(tokens)) = StripOutside(SubSeq(line, 1, ci), 1)
    /\ pc \in {"parse_tokens", "parse_line_number", "parse_chunk"} =>
           Concat(tokens, Len(tokens)) = StripOutside(line, 1)

\* The example line with its nested comment has been lexed to five tokens.
C28_Witness ==
    /\ pc = "parse_tokens" /\ line = NestedExample /\ Len(tokens) = 5
    /\ tokens[3] = Chars("(nested (deep) comment)")

(***************************************************************************)
(* C29: every WordAddress chunk that parse_tokens has built has a letter   *)
(* that parse_address accepts, and an address of that letter's kind:       *)
(* double for the double list, integer for the integer list.               *)
(***************************************************************************)
Classified(c) ==
    c.chunk_tp = "CHUNK_TYPE_WORD_ADDRESS" =>
        \/ c.wad.wd \in AcceptedDouble /\ c.wad.adr.ad_type = "ADDRESS_TYPE_DOUBLE"
        \/ c.wad.wd \in AcceptedInt /\ c.wad.adr.ad_type = "ADDRESS_TYPE_INTEGER"

AllClassified(cs) == \A k \in 1..Len(cs) : Classified(cs[k])

C29_TagMatchesLetter ==
    /\ AllClassified(chunks)
    /\ \A k \in 1..Len(blocks) : AllClassified(blocks[k].chunks)
    /\ \A k \in 1..Len(program) : AllClassified(program[k].chunks)

\* A returned block with an integer and three double WordAddresses.
C29_Witness ==
    /\ Returned /\ pass = 1 /\ text = Chars("G0 X0.0 Y0.0 Z0.0")
    /\ Len(program[1].chunks) = 4
    /\ program[1].chunks[1].wad.adr.ad_type = "ADDRESS_TYPE_INTEGER"
    /\ program[1].chunks[4].wad.adr.ad_type = "ADDRESS_TYPE_DOUBLE"

(***************************************************************************)
(* C30: the printed text of a program is the same whether its blocks are   *)
(* deleted or not, and the printed line of a deleted block has no '/' in   *)
(* front: a line starts with '/' only when the block's first chunk is the  *)
(* Word '/'.                                                               *)
(***************************************************************************)
Flagged(p, f) == [k \in 1..Len(p) |-> [p[k] EXCEPT !.slashed_out = f]]

C30_FlagNotPrinted ==
    pass = 2 =>
        /\ text = program_print(Flagged(first.program, TRUE))
        /\ text = program_print(Flagged(first.program, FALSE))
        /\ \A k \in 1..Len(first.program) :
               LET l == SplitLines(text, 1, <<>>)[k]
                   b == first.program[k]
               IN  (l # <<>> /\ l[1] = "/") =>
                       (~b.has_line_no /\ b.chunks # <<>> /\ IsWord(b.chunks[1])
                        /\ b.chunks[1].single_word = "/")

\* The deleted block of "/N5 G1 X1" has been printed.
C30_Witness ==
    /\ pass = 2 /\ first.text = Chars("/N5 G1 X1")
    /\ first.program[1].slashed_out
    /\ text = Chars("N5 G1 X1 \n")

=============================================================================
